---- MODULE Spec2Model ----
(***************************************************************************)
(* Model of the RFID attendance tool, ArduinoUno-RFIDController/absensi.py *)
(*                                                                         *)
(* Text is a sequence of one-character strings.  A user row is             *)
(* [uid, nama]; the age column (umur) is copied alongside nama and is read *)
(* by no decision of the program, so the rows of the model leave it out.   *)
(* A log row is [uid, nama, waktu]; waktu, the "%Y-%m-%d %H:%M:%S" text of *)
(* the wall clock, is represented by the clock's count of seconds, whose   *)
(* order the fixed-width format preserves.  The clock is read only by      *)
(* append_log; now holds its latest reading, and a later reading is never  *)
(* earlier than it.  Reading and writing the two CSV files succeeds in the  *)
(* specifications below.                                                   *)
(***************************************************************************)
EXTENDS Integers, Sequences, FiniteSets, TLC

\* ------------------------------------------------------------------ bounds
\* worker threads ever created by connect
MaxWorkers == 2
\* scans carrying an identifier plus store-changing button presses in a run
MaxEvents == 2
\* seconds the wall clock advances in a run
MaxTime == 1
MaxLen == 3

\* ------------------------------------------------------------ characters
LowerChars == {"a", "b"}
UpperChars == {"A", "B"}
DigitChars == {"1"}
SpaceChars == {" "}
OtherChars == {"-"}
Chars == LowerChars \cup UpperChars \cup DigitChars \cup SpaceChars \cup OtherChars

\* str.isalnum of one character
isalnum(c) == c \in LowerChars \cup UpperChars \cup DigitChars

\* an upper that knows one letter only
upperCharOnlyA(c) == IF c = "a" THEN "A" ELSE c

\* str.upper of one character
upperChar(c) == CASE c = "a" -> "A"
                  [] c = "b" -> "B"
                  [] OTHER -> c

\* str.upper
RECURSIVE upper(_)
upper(s) == IF s = <<>> THEN <<>> ELSE <<upperChar(Head(s))>> \o upper(Tail(s))

\* ''.join(c for c in text if c.isalnum())
RECURSIVE keepAlnum(_)
keepAlnum(s) ==
    IF s = <<>> THEN <<>>
    ELSE IF isalnum(Head(s)) THEN <<Head(s)>> \o keepAlnum(Tail(s))
    ELSE keepAlnum(Tail(s))

normalize_uid(text) == upper(keepAlnum(text))

\* str.strip: leading and trailing whitespace removed
RECURSIVE lstrip(_)
lstrip(s) == IF s # <<>> /\ Head(s) \in SpaceChars THEN lstrip(Tail(s)) ELSE s

RECURSIVE rstrip(_)
rstrip(s) ==
    IF s # <<>> /\ s[Len(s)] \in SpaceChars THEN rstrip(SubSeq(s, 1, Len(s) - 1)) ELSE s

strip(s) == rstrip(lstrip(s))

\* ------------------------------------------------------------ input sets
\* every text of at most MaxLen characters, the arguments of normalize_uid
Texts == UNION { [1 .. n -> Chars] : n \in 0 .. MaxLen }

\* what one readline() returns after decoding: nothing on a timeout, else a line
RawLines == { <<>>, <<" ", "-">>, <<"a", " ">>, <<"-", "B">> }

\* what the user may type into the UID entry and the Nama entry of the form
UidTexts == { <<"b", "-">>, <<"-">> }
NamaTexts == { <<" ", "y">> }

\* users.csv as the program may find it at start: absent (created empty), or
\* holding one row whose identifier was written in lower case
InitUsersFiles == { <<>>, << [uid |-> <<"a">>, nama |-> <<"x">>] >> }

\* pyserial could be imported
serial_installed == TRUE

NoPort == ""
Ports == {"COM3"}

VARIABLES
    usersFile,          \* rows of users.csv
    logFile,            \* rows of absensi.csv
    users,              \* App.users
    logs,               \* App.logs
    users_tree,         \* rows shown in the users table
    sel,                \* selected row of the users table, 0 for none
    serial_queue,       \* App.serial_queue
    reader,             \* App.reader: 0 for None, else the worker's number
    workers,            \* the SerialReader threads ever created
    port_var, uid_detected_var, uid_var, nama_var,
    polling,            \* TRUE while _poll_serial is inside its drain loop
    scheduled,          \* TRUE while a call of _poll_serial is pending or running
    now,                \* the latest reading of the wall clock, in seconds
    events,             \* history: scans read and store-changing presses so far
    handled,            \* history: identifiers drained by _poll_serial, in order, each
                        \* with whether it had a profile and whether it was deleted
    readOrder,          \* history: identifiers read by the workers, in order
    manual,             \* history: number of rows appended by the attendance buttons
    deleted             \* history: identifiers deleted and not registered since

storeVars == <<usersFile, logFile, users, logs, users_tree, sel>>
formVars == <<uid_detected_var, uid_var, nama_var>>
serialVars == <<serial_queue, reader, workers, port_var, readOrder>>
histVars == <<handled, manual, deleted, events>>
vars == <<usersFile, logFile, users, logs, users_tree, sel, serial_queue, reader,
          workers, port_var, uid_detected_var, uid_var, nama_var, polling, scheduled, now,
          handled, readOrder, manual, deleted, events>>

WorkerIds == 1 .. MaxWorkers

\* a SerialReader that connect has not created yet
NoWorker == [pc |-> "unborn", stop |-> FALSE, ser |-> "none", uid |-> <<>>,
             errs |-> 0, latePuts |-> 0]

\* ------------------------------------------------------------- CsvStore
\* CsvStore.load_users applied to the rows of users.csv
load_users(file) ==
    [i \in 1 .. Len(file) |-> [uid |-> upper(strip(file[i].uid)), nama |-> file[i].nama]]

\* CsvStore.save_users: the rows written to users.csv
save_users(us) ==
    [i \in 1 .. Len(us) |-> [uid |-> upper(us[i].uid), nama |-> us[i].nama]]

\* an append that skips an identifier the log already holds
append_log_once(file, uid, nama, t) ==
    IF \E i \in 1 .. Len(file) : file[i].uid = upper(uid)
    THEN file
    ELSE Append(file, [uid |-> upper(uid), nama |-> nama, waktu |-> t])

\* an append that opens the file for writing and so truncates it
append_log_w(file, uid, nama, t) ==
    <<[uid |-> upper(uid), nama |-> nama, waktu |-> t]>>

\* CsvStore.append_log: the rows of absensi.csv after the call
append_log(file, uid, nama, t) ==
    Append(file, [uid |-> upper(uid), nama |-> nama, waktu |-> t])

\* CsvStore.load_logs without a limit
load_logs(file) == file

\* --------------------------------------------------------- SerialReader
\* A worker is [pc, stop, ser, uid, errs, latePuts]: its position, its stop
\* event, its connection, the identifier it is about to put, the calls it has
\* made to on_error and, as history, the puts it has made with stop set.
\* pc is "open" (run entered, Serial() not yet returned), "check" (at the
\* while test), "read" (inside readline), "put" (identifier held), "close"
\* (loop left) or "done" (run returned).
\* an open whose failure is reported but not followed by return
WOpenNoReturn(w) ==
    /\ workers[w].pc = "open"
    /\ \/ workers' = [workers EXCEPT ![w].ser = "open", ![w].pc = "check"]
       \/ workers' = [workers EXCEPT ![w].errs = @ + 1, ![w].pc = "check"]
    /\ UNCHANGED <<storeVars, formVars, histVars, serial_queue, reader, port_var,
                   readOrder, polling, scheduled, now>>

\* run, lines 111-115: serial.Serial(...) returns a connection or raises
WOpen(w) ==
    /\ workers[w].pc = "open"
    /\ \/ workers' = [workers EXCEPT ![w].ser = "open", ![w].pc = "check"]
       \/ workers' = [workers EXCEPT ![w].errs = @ + 1, ![w].pc = "done"]
    /\ UNCHANGED <<storeVars, formVars, histVars, serial_queue, reader, port_var,
                   readOrder, polling, scheduled, now>>

\* a loop test that never looks at the stop signal
WCheckNoStop(w) ==
    /\ workers[w].pc = "check"
    /\ workers' = [workers EXCEPT ![w].pc = "read"]
    /\ UNCHANGED <<storeVars, formVars, histVars, serial_queue, reader, port_var,
                   readOrder, polling, scheduled, now>>

\* run, line 116: while not self._stop.is_set()
WCheck(w) ==
    /\ workers[w].pc = "check"
    /\ workers' = [workers EXCEPT
                     ![w].pc = IF workers[w].stop THEN "close" ELSE "read"]
    /\ UNCHANGED <<storeVars, formVars, histVars, serial_queue, reader, port_var,
                   readOrder, polling, scheduled, now>>

\* a read whose failure is reported but not followed by break
WReadNoBreak(w) ==
    /\ workers[w].pc = "read"
    /\ \/ \E raw \in RawLines :
            LET line == strip(raw)
                uid == normalize_uid(line)
            IN IF line # <<>> /\ uid # <<>>
               THEN /\ events < MaxEvents
                    /\ workers' = [workers EXCEPT ![w].uid = uid, ![w].pc = "put"]
                    /\ readOrder' = Append(readOrder, uid)
                    /\ events' = events + 1
               ELSE /\ workers' = [workers EXCEPT ![w].pc = "check"]
                    /\ UNCHANGED <<readOrder, events>>
       \/ /\ workers[w].errs = 0
          /\ workers' = [workers EXCEPT ![w].errs = @ + 1, ![w].pc = "check"]
          /\ UNCHANGED <<readOrder, events>>
    /\ UNCHANGED <<storeVars, formVars, handled, manual, deleted, serial_queue, reader,
                   port_var, polling, scheduled, now>>

\* a read that publishes whatever normalize_uid returns, empty or not
WReadAnyUid(w) ==
    /\ workers[w].pc = "read"
    /\ \/ \E raw \in RawLines :
            LET line == strip(raw)
                uid == normalize_uid(line)
            IN IF line # <<>>
               THEN /\ events < MaxEvents
                    /\ workers' = [workers EXCEPT ![w].uid = uid, ![w].pc = "put"]
                    /\ readOrder' = Append(readOrder, uid)
                    /\ events' = events + 1
               ELSE /\ workers' = [workers EXCEPT ![w].pc = "check"]
                    /\ UNCHANGED <<readOrder, events>>
       \/ /\ workers' = [workers EXCEPT ![w].errs = @ + 1, ![w].pc = "close"]
          /\ UNCHANGED <<readOrder, events>>
    /\ UNCHANGED <<storeVars, formVars, handled, manual, deleted, serial_queue, reader,
                   port_var, polling, scheduled, now>>

\* run, lines 118-121: readline() returns within its timeout; the line is
\* decoded, stripped and normalized, and a non-empty identifier is held for the
\* put; or readline raises (lines 123-125: report and break)
WRead(w) ==
    /\ workers[w].pc = "read"
    /\ \/ \E raw \in RawLines :
            LET line == strip(raw)
                uid == normalize_uid(line)
            IN IF line # <<>> /\ uid # <<>>
               THEN /\ events < MaxEvents
                    /\ workers' = [workers EXCEPT ![w].uid = uid, ![w].pc = "put"]
                    /\ readOrder' = Append(readOrder, uid)
                    /\ events' = events + 1
               ELSE /\ workers' = [workers EXCEPT ![w].pc = "check"]
                    /\ UNCHANGED <<readOrder, events>>
       \/ /\ workers' = [workers EXCEPT ![w].errs = @ + 1, ![w].pc = "close"]
          /\ UNCHANGED <<readOrder, events>>
    /\ UNCHANGED <<storeVars, formVars, handled, manual, deleted, serial_queue, reader,
                   port_var, polling, scheduled, now>>

\* run, line 122: self.out_queue.put(uid)
WPut(w) ==
    /\ workers[w].pc = "put"
    /\ serial_queue' = Append(serial_queue, workers[w].uid)
    /\ workers' = [workers EXCEPT ![w].uid = <<>>, ![w].pc = "check",
                                  ![w].latePuts = @ + IF workers[w].stop THEN 1 ELSE 0]
    /\ UNCHANGED <<storeVars, formVars, histVars, reader, port_var, readOrder,
                   polling, scheduled, now>>

\* a return that leaves the connection open
WCloseLeak(w) ==
    /\ workers[w].pc = "close"
    /\ workers' = [workers EXCEPT ![w].pc = "done"]
    /\ UNCHANGED <<storeVars, formVars, histVars, serial_queue, reader, port_var,
                   readOrder, polling, scheduled, now>>

\* run, lines 126-130: close the connection if it is open, then return
WClose(w) ==
    /\ workers[w].pc = "close"
    /\ workers' = [workers EXCEPT
                     ![w].ser = IF workers[w].ser = "open" THEN "closed" ELSE @,
                     ![w].pc = "done"]
    /\ UNCHANGED <<storeVars, formVars, histVars, serial_queue, reader, port_var,
                   readOrder, polling, scheduled, now>>

\* SerialReader.stop
stop(ws, w) == [ws EXCEPT ![w].stop = TRUE]

\* one step of the thread of worker w
WorkerStep(w) == WOpen(w) \/ WCheck(w) \/ WRead(w) \/ WPut(w) \/ WClose(w)

\* ------------------------------------------------------------------ App
\* App.find_user_by_uid: the position of the first matching row, 0 for None
find_user_by_uid(us, uid) ==
    LET hits == {i \in 1 .. Len(us) : normalize_uid(us[i].uid) = normalize_uid(uid)}
    IN IF hits = {} THEN 0 ELSE CHOOSE i \in hits : \A j \in hits : i <= j

\* the name of the first row, whichever row matched
nama_of_first(us, user) == us[1].nama

\* user["nama"] of the row find_user_by_uid returned
nama_of(us, user) == us[user].nama

\* App.refresh_tables, given the rows the two files hold when it runs: both
\* lists are reloaded and the users table is rebuilt, which drops its selection
refresh_tables(uf, lf) ==
    /\ users' = load_users(uf)
    /\ logs' = load_logs(lf)
    /\ users_tree' = load_users(uf)
    /\ sel' = 0

\* a handler that stages nothing and, for an unknown identifier, registers it
on_uid_received_autocreate(uid) ==
    /\ uid_detected_var' = uid
    /\ LET user == find_user_by_uid(users, uid)
       IN IF user # 0
          THEN /\ \E t \in now .. MaxTime :
                    /\ now' = t
                    /\ logFile' = append_log(logFile, uid, nama_of(users, user), t)
               /\ usersFile' = usersFile
               /\ refresh_tables(usersFile, logFile')
          ELSE /\ usersFile' = save_users(Append(users, [uid |-> uid, nama |-> uid]))
               /\ refresh_tables(usersFile', logFile)
               /\ UNCHANGED <<logFile, now>>
    /\ UNCHANGED <<uid_var, nama_var>>

\* a handler that ignores an identifier it does not know
on_uid_received_drop(uid) ==
    /\ uid_detected_var' = uid
    /\ LET user == find_user_by_uid(users, uid)
       IN IF user # 0
          THEN /\ \E t \in now .. MaxTime :
                    /\ now' = t
                    /\ logFile' = append_log(logFile, uid, nama_of(users, user), t)
               /\ usersFile' = usersFile
               /\ refresh_tables(usersFile, logFile')
          ELSE UNCHANGED <<storeVars, now>>
    /\ UNCHANGED <<uid_var, nama_var>>

\* App.on_uid_received
on_uid_received(uid) ==
    /\ uid_detected_var' = uid
    /\ LET user == find_user_by_uid(users, uid)
       IN IF user # 0
          THEN /\ \E t \in now .. MaxTime :
                    /\ now' = t
                    /\ logFile' = append_log(logFile, uid, nama_of(users, user), t)
               /\ usersFile' = usersFile
               /\ refresh_tables(usersFile, logFile')
               /\ uid_var' = uid_var
          ELSE /\ uid_var' = uid
               /\ UNCHANGED <<storeVars, now>>
    /\ nama_var' = nama_var

\* App._poll_serial, one turn of its loop with an identifier in the queue
PollGet ==
    /\ scheduled
    /\ serial_queue # <<>>
    /\ LET uid == Head(serial_queue)
       IN /\ serial_queue' = Tail(serial_queue)
          /\ handled' = Append(handled,
                               [uid |-> uid,
                                known |-> find_user_by_uid(users, uid) # 0,
                                gone |-> uid \in deleted])
          /\ IF uid # <<>>
             THEN on_uid_received(uid)
             ELSE UNCHANGED <<storeVars, formVars, now>>
    /\ polling' = TRUE
    /\ UNCHANGED <<reader, workers, port_var, readOrder, manual, deleted, events,
                   scheduled>>

\* App._poll_serial, lines 305-307: the queue is empty, the loop ends and the
\* next tick is scheduled
PollEmpty ==
    /\ polling
    /\ serial_queue = <<>>
    /\ polling' = FALSE
    /\ UNCHANGED <<storeVars, formVars, serialVars, histVars, now, scheduled>>

\* App._refresh_ports: the first port found is selected when none is
refresh_ports ==
    /\ ~polling
    /\ \E ports \in SUBSET Ports :
         port_var' = IF ports # {} /\ port_var = NoPort
                     THEN CHOOSE p \in ports : TRUE ELSE port_var
    /\ UNCHANGED <<storeVars, formVars, histVars, serial_queue, reader, workers,
                   readOrder, polling, scheduled, now>>

\* App.connect
connect ==
    /\ ~polling
    /\ IF reader # 0 \/ port_var = NoPort \/ ~serial_installed
       THEN UNCHANGED <<reader, workers>>
       ELSE \E w \in WorkerIds :
              /\ workers[w].pc = "unborn"
              /\ \A v \in WorkerIds : v < w => workers[v].pc # "unborn"
              /\ workers' = [workers EXCEPT ![w].pc = "open"]
              /\ reader' = w
    /\ UNCHANGED <<storeVars, formVars, histVars, serial_queue, port_var, readOrder,
                   polling, scheduled, now>>

\* a disconnect that also empties the queue
disconnect_clear ==
    /\ ~polling
    /\ IF reader # 0
       THEN /\ workers' = stop(workers, reader)
            /\ reader' = 0
            /\ serial_queue' = <<>>
       ELSE UNCHANGED <<reader, workers, serial_queue>>
    /\ UNCHANGED <<storeVars, formVars, histVars, port_var, readOrder,
                   polling, scheduled, now>>

\* App.disconnect
disconnect ==
    /\ ~polling
    /\ IF reader # 0
       THEN /\ workers' = stop(workers, reader)
            /\ reader' = 0
       ELSE UNCHANGED <<reader, workers>>
    /\ UNCHANGED <<storeVars, formVars, histVars, serial_queue, port_var, readOrder,
                   polling, scheduled, now>>

\* the user edits the UID entry or the Nama entry of the form
TypeUid ==
    /\ ~polling
    /\ \E t \in UidTexts : uid_var' = t
    /\ UNCHANGED <<storeVars, serialVars, histVars, uid_detected_var, nama_var,
                   polling, scheduled, now>>

TypeNama ==
    /\ ~polling
    /\ \E t \in NamaTexts : nama_var' = t
    /\ UNCHANGED <<storeVars, serialVars, histVars, uid_detected_var, uid_var,
                   polling, scheduled, now>>

\* App.on_user_select: the user picks a row of the users table
on_user_select ==
    /\ ~polling
    /\ \E i \in 1 .. Len(users_tree) :
         /\ sel' = i
         /\ uid_var' = users_tree[i].uid
         /\ nama_var' = users_tree[i].nama
    /\ UNCHANGED <<usersFile, logFile, users, logs, users_tree, serialVars, histVars,
                   uid_detected_var, polling, scheduled, now>>

\* App.form_new
form_new ==
    /\ ~polling
    /\ uid_var' = <<>>
    /\ nama_var' = <<>>
    /\ UNCHANGED <<storeVars, serialVars, histVars, uid_detected_var, polling, scheduled, now>>

\* a save that adds a row without looking for an existing one
saved_users_append(us, uid, nama) ==
    Append(us, [uid |-> uid, nama |-> nama])

\* App.form_save, lines 363-376: the list after the update or the add
saved_users(us, uid, nama) ==
    IF find_user_by_uid(us, uid) # 0
    THEN [i \in 1 .. Len(us) |->
            IF normalize_uid(us[i].uid) = uid THEN [us[i] EXCEPT !.nama = nama]
            ELSE us[i]]
    ELSE Append(us, [uid |-> uid, nama |-> nama])

\* App.form_save
form_save ==
    /\ ~polling
    /\ LET uid == normalize_uid(uid_var)
           nama == strip(nama_var)
       IN IF uid = <<>> \/ nama = <<>>
          THEN UNCHANGED <<storeVars, deleted, events>>
          ELSE /\ events < MaxEvents
               /\ events' = events + 1
               /\ usersFile' = save_users(saved_users(users, uid, nama))
               /\ logFile' = logFile
               /\ refresh_tables(usersFile', logFile)
               /\ deleted' = deleted \ {uid}
    /\ UNCHANGED <<formVars, serialVars, handled, manual, polling, scheduled, now>>

\* a filter with its comparison inverted
only_uid(us, uid) ==
    SelectSeq(us, LAMBDA u : normalize_uid(u.uid) = uid)

\* App.delete_user, line 387: the list without the rows of that identifier
without_uid(us, uid) ==
    SelectSeq(us, LAMBDA u : normalize_uid(u.uid) # uid)

\* App.delete_user: nothing is selected, or the user answers the confirmation
delete_user ==
    /\ ~polling
    /\ IF sel = 0
       THEN UNCHANGED <<storeVars, deleted, events>>
       ELSE LET uid == normalize_uid(users_tree[sel].uid)
            IN \E yes \in BOOLEAN :
                 IF yes
                 THEN /\ events < MaxEvents
                      /\ events' = events + 1
                      /\ usersFile' = save_users(without_uid(users, uid))
                      /\ logFile' = logFile
                      /\ refresh_tables(usersFile', logFile)
                      /\ deleted' = deleted \cup {uid}
                 ELSE UNCHANGED <<storeVars, deleted, events>>
    /\ UNCHANGED <<formVars, serialVars, handled, manual, polling, scheduled, now>>

\* the Reload button: App.refresh_tables
Reload ==
    /\ ~polling
    /\ refresh_tables(usersFile, logFile)
    /\ UNCHANGED <<usersFile, logFile, formVars, serialVars, histVars, polling, scheduled, now>>

\* the text the detected-UID label shows before the first scan
NoUid == <<"-">>

\* App.assign_uid_to_form
assign_uid_to_form ==
    /\ ~polling
    /\ uid_var' = IF uid_detected_var = <<>> \/ uid_detected_var = NoUid
                  THEN uid_var ELSE uid_detected_var
    /\ UNCHANGED <<storeVars, serialVars, histVars, uid_detected_var, nama_var,
                   polling, scheduled, now>>

\* App.absen_uid_terdeteksi
absen_uid_terdeteksi ==
    /\ ~polling
    /\ LET uid == uid_detected_var
           user == find_user_by_uid(users, uid)
       IN IF uid = <<>> \/ uid = NoUid
          THEN UNCHANGED <<storeVars, uid_var, manual, events, now>>
          ELSE IF user = 0
          THEN /\ uid_var' = uid
               /\ UNCHANGED <<storeVars, manual, events, now>>
          ELSE /\ events < MaxEvents
               /\ events' = events + 1
               /\ \E t \in now .. MaxTime :
                    /\ now' = t
                    /\ logFile' = append_log(logFile, uid, nama_of(users, user), t)
               /\ usersFile' = usersFile
               /\ refresh_tables(usersFile, logFile')
               /\ manual' = manual + 1
               /\ uid_var' = uid_var
    /\ UNCHANGED <<serialVars, handled, deleted, uid_detected_var, nama_var, polling, scheduled>>

\* App.absen_user_on_form: an unknown identifier with a name on the form is
\* saved through form_save before the row is appended
absen_user_on_form ==
    /\ ~polling
    /\ LET uid == normalize_uid(uid_var)
           known == find_user_by_uid(users, uid) # 0
           nama == strip(nama_var)
           us == IF known THEN users ELSE load_users(save_users(saved_users(users, uid, nama)))
           user == find_user_by_uid(us, uid)
       IN IF uid = <<>> \/ (~known /\ nama = <<>>)
          THEN UNCHANGED <<storeVars, manual, deleted, events, now>>
          ELSE /\ events < MaxEvents
               /\ events' = events + 1
               /\ usersFile' = IF known THEN usersFile
                               ELSE save_users(saved_users(users, uid, nama))
               /\ \E t \in now .. MaxTime :
                    /\ now' = t
                    /\ logFile' = append_log(logFile, uid, nama_of(us, user), t)
               /\ refresh_tables(usersFile', logFile')
               /\ manual' = manual + 1
               /\ deleted' = IF known THEN deleted ELSE deleted \ {uid}
    /\ UNCHANGED <<formVars, serialVars, handled, polling, scheduled>>

\* App.form_save line 357, then on_user_select line 348 of the saved row: the
\* text of the UID entry is replaced by its canonical form
NormalizeEntry ==
    /\ uid_var' = normalize_uid(uid_var)
    /\ UNCHANGED <<storeVars, serialVars, histVars, uid_detected_var, nama_var,
                   polling, scheduled, now>>

\* ------------------------------------------------ store I/O failures
\* open() of a store file raises OSError (the file is locked, the disk is
\* read-only); the file is left as it was and the exception leaves the handler

\* App._poll_serial with on_uid_received raising for an identifier that has a
\* profile: append_log raises (line 326), or the row is written and load_users
\* raises in refresh_tables (line 327). Only queue.Empty is caught (line 305),
\* so the exception leaves _poll_serial before line 307 schedules the next tick.
PollGetFails ==
    /\ scheduled
    /\ serial_queue # <<>>
    /\ LET uid == Head(serial_queue)
           user == find_user_by_uid(users, uid)
       IN /\ user # 0
          /\ serial_queue' = Tail(serial_queue)
          /\ handled' = Append(handled,
                               [uid |-> uid, known |-> TRUE, gone |-> uid \in deleted])
          /\ uid_detected_var' = uid
          /\ \/ UNCHANGED <<logFile, now>>
             \/ \E t \in now .. MaxTime :
                  /\ now' = t
                  /\ logFile' = append_log(logFile, uid, nama_of(users, user), t)
    /\ polling' = FALSE
    /\ scheduled' = FALSE
    /\ UNCHANGED <<usersFile, users, logs, users_tree, sel, uid_var, nama_var, reader,
                   workers, port_var, readOrder, manual, deleted, events>>

\* App.form_save with save_users raising (line 370 or 375): the list in memory
\* has already been updated (lines 366-368) or extended (line 374)
form_save_fails ==
    /\ ~polling
    /\ LET uid == normalize_uid(uid_var)
           nama == strip(nama_var)
       IN /\ uid # <<>>
          /\ nama # <<>>
          /\ events < MaxEvents
          /\ events' = events + 1
          /\ users' = saved_users(users, uid, nama)
    /\ UNCHANGED <<usersFile, logFile, logs, users_tree, sel, formVars, serialVars,
                   handled, manual, deleted, polling, scheduled, now>>

\* App.delete_user with save_users raising (line 388): the list in memory has
\* already been replaced (line 387)
delete_user_fails ==
    /\ ~polling
    /\ sel # 0
    /\ events < MaxEvents
    /\ events' = events + 1
    /\ users' = without_uid(users, normalize_uid(users_tree[sel].uid))
    /\ UNCHANGED <<usersFile, logFile, logs, users_tree, sel, formVars, serialVars,
                   handled, manual, deleted, polling, scheduled, now>>

\* a step in which a store operation raises
StoreFailure == PollGetFails \/ form_save_fails \/ delete_user_fails

\* ------------------------------------------------------- specification
\* App.__init__: the files exist (ensure_files), both lists are loaded, the
\* queue is empty, there is no reader, the tables are filled
Init ==
    /\ usersFile \in InitUsersFiles
    /\ logFile = <<>>
    /\ users = load_users(usersFile)
    /\ logs = load_logs(logFile)
    /\ users_tree = users
    /\ sel = 0
    /\ serial_queue = <<>>
    /\ reader = 0
    /\ workers = [w \in WorkerIds |-> NoWorker]
    /\ port_var \in {NoPort} \cup Ports
    /\ uid_detected_var = NoUid
    /\ uid_var = <<>>
    /\ nama_var = <<>>
    /\ polling = FALSE
    /\ scheduled = TRUE
    /\ now = 0
    /\ handled = <<>>
    /\ readOrder = <<>>
    /\ manual = 0
    /\ events = 0
    /\ deleted = {}

\* the scan pipeline: the worker threads, the connection buttons, the poll
NextSerial ==
    \/ \E w \in WorkerIds : WorkerStep(w)
    \/ PollGet
    \/ PollEmpty
    \/ refresh_ports
    \/ connect
    \/ disconnect

\* the worker threads and the connection buttons alone: what the threads do
\* does not depend on the rest of the program, which only takes from the queue
NextWorker ==
    \/ \E w \in WorkerIds : WorkerStep(w)
    \/ refresh_ports
    \/ connect
    \/ disconnect

\* the attendance desk: the poll, the clock and every button and entry of the
\* users form, with one connection feeding the queue.  Disconnect is left to
\* NextSerial: it changes only the reader and its stop event, and the threads
\* reach the rest of the program only through what they put on the queue,
\* which a single worker can fill with any sequence of identifiers.
Next ==
    \/ \E w \in WorkerIds : WorkerStep(w)
    \/ PollGet
    \/ PollEmpty
    \/ refresh_ports
    \/ connect
    \/ TypeUid
    \/ TypeNama
    \/ on_user_select
    \/ form_new
    \/ form_save
    \/ delete_user
    \/ Reload
    \/ assign_uid_to_form
    \/ absen_uid_terdeteksi
    \/ absen_user_on_form

\* the application with any text in the UID entry
InitNormalize ==
    /\ usersFile = <<>>
    /\ logFile = <<>>
    /\ users = load_users(usersFile)
    /\ logs = load_logs(logFile)
    /\ users_tree = users
    /\ sel = 0
    /\ serial_queue = <<>>
    /\ reader = 0
    /\ workers = [w \in WorkerIds |-> NoWorker]
    /\ port_var = NoPort
    /\ uid_detected_var = NoUid
    /\ uid_var \in Texts
    /\ nama_var = <<>>
    /\ polling = FALSE
    /\ scheduled = TRUE
    /\ now = 0
    /\ handled = <<>>
    /\ readOrder = <<>>
    /\ manual = 0
    /\ deleted = {}
    /\ events = 0

NextNormalize == NormalizeEntry

\* the application with store operations that may fail
NextFault ==
    \/ Next
    \/ PollGetFails
    \/ form_save_fails
    \/ delete_user_fails

Spec == Init /\ [][Next]_vars

SpecFault == Init /\ [][NextFault]_vars

SpecNormalize == InitNormalize /\ [][NextNormalize]_vars

SpecSerial == Init /\ [][NextSerial]_vars

\* the threads never read the files: one starting content is enough
InitWorker == Init /\ usersFile = <<>>

\* every started thread keeps being scheduled, and every readline returns
\* within its timeout (serial.Serial(..., timeout=1))
SpecWorker ==
    InitWorker /\ [][NextWorker]_vars /\ \A w \in WorkerIds : WF_vars(WorkerStep(w))

\* ---------------------------------------------------------------- claims
IsPrefix(s, t) == Len(s) <= Len(t) /\ SubSeq(t, 1, Len(s)) = s

\* the identifiers of the drained entries, in the order they were handled
HandledUids == [i \in 1 .. Len(handled) |-> handled[i].uid]

\* the threads that were started and have not returned from run
ActiveWorkers == {w \in WorkerIds : workers[w].pc \notin {"unborn", "done"}}

\* C2 (as claimed): the coordinator handles the identifiers in the order in
\* which their lines were read.
C2_HandledInReadOrder == IsPrefix(HandledUids, readOrder)

\* C8: once stop is requested on a worker whose connection is open, the worker
\* eventually returns from run with the connection closed; a worker that has
\* returned never holds an open connection; and a stopped worker starts no
\* read: the only read after the request is the one then in progress.
C8_StopTerminates ==
    /\ [](\A w \in WorkerIds : workers[w].pc = "done" => workers[w].ser # "open")
    /\ [][\A w \in WorkerIds :
            (workers[w].stop /\ workers[w].pc # "read") => workers'[w].pc # "read"]_vars
    /\ \A w \in WorkerIds :
         (workers[w].stop /\ workers[w].ser = "open")
            ~> (workers[w].pc = "done" /\ workers[w].ser = "closed")

\* C8 witness: a stopped worker has returned, its connection closed, after
\* finishing the read that was in progress when stop was requested
C8_Witness ==
    \E w \in WorkerIds :
        /\ workers[w].stop
        /\ workers[w].pc = "done"
        /\ workers[w].ser = "closed"
        /\ workers[w].latePuts = 1

\* C9 (as claimed): after stop has been requested a worker makes no further
\* push to the queue.
C9_NoPushAfterStop == \A w \in WorkerIds : workers[w].latePuts = 0

\* C9 (amended): after stop has been requested a worker makes at most one
\* further push, that of the line it was reading or holding at the request,
\* and none once it has reached its loop test again.
C9_AtMostOnePushAfterStop ==
    /\ [](\A w \in WorkerIds : workers[w].latePuts <= 1)
    /\ [][\A w \in WorkerIds :
            (workers[w].stop /\ workers[w].pc \in {"check", "close", "done"})
               => workers'[w].latePuts = workers[w].latePuts]_vars

\* C9 witness: a worker has pushed once after its stop request
C9_Witness == \E w \in WorkerIds : workers[w].stop /\ workers[w].latePuts = 1

\* C10 (as claimed): never are two workers both started and not yet finished.
C10_OneActiveWorker == Cardinality(ActiveWorkers) <= 1

\* two identifiers are the same under normalize_uid
SameId(a, b) == normalize_uid(a) = normalize_uid(b)

\* the step handles a drained identifier
Handles == Len(handled') = Len(handled) + 1
HandledNow == handled'[Len(handled')]

\* the step appends exactly one row, for uid, to absensi.csv
AppendsFor(uid) ==
    /\ Len(logFile') = Len(logFile) + 1
    /\ IsPrefix(logFile, logFile')
    /\ logFile'[Len(logFile')].uid = uid

\* the rows of the log that carry identifier uid
RowsOf(uid) == {i \in 1 .. Len(logFile) : logFile[i].uid = uid}
KnownHandled == {i \in 1 .. Len(handled) : handled[i].known}

C3_UnknownIsOnlyStaged ==
    [][(Handles /\ ~HandledNow.known) =>
         /\ UNCHANGED <<usersFile, logFile, users, logs>>
         /\ uid_var' = HandledNow.uid]_vars

\* C3 witness: an unknown identifier was drained and sits in the form, with
\* nothing logged for it and no profile made for it
C3_Witness ==
    /\ handled # <<>>
    /\ ~handled[Len(handled)].known
    /\ uid_var = handled[Len(handled)].uid
    /\ RowsOf(uid_var) = {}
    /\ \A i \in 1 .. Len(users) : ~SameId(users[i].uid, uid_var)

C5_RowNamesItsProfile ==
    [][logFile' # logFile =>
         /\ Len(logFile') = Len(logFile) + 1
         /\ LET row == logFile'[Len(logFile')]
                hits == {i \in 1 .. Len(users') : SameId(users'[i].uid, row.uid)}
            IN /\ hits # {}
               /\ \A i \in hits : row.nama = users'[i].nama]_vars

\* C5 witness: a scan and an attendance button have each appended a row, and
\* the profiles carry different names
C5_Witness ==
    /\ manual >= 1
    /\ KnownHandled # {}
    /\ \E i, j \in 1 .. Len(logFile) : logFile[i].nama # logFile[j].nama

\* C6: the log only grows at its end: after every step the log of before is
\* a prefix of the log of after, on file and in memory.
C6_LogAppendOnly ==
    [][IsPrefix(logFile, logFile') /\ IsPrefix(logs, logs')]_vars

\* C6 witness: a logged identifier's profile was deleted afterwards and its
\* row is still in the log
C6_Witness ==
    \E i \in 1 .. Len(logFile) :
        /\ logFile[i].uid \in deleted
        /\ \A j \in 1 .. Len(users) : ~SameId(users[j].uid, logFile[i].uid)
        /\ logs = logFile

\* C7: an identifier whose profile was deleted and not registered since is,
\* when drained, put into the registration input and adds no row to the log.
C7_DeletedIsStaged ==
    [][\A u \in deleted :
         (Handles /\ HandledNow.uid = u) => (logFile' = logFile /\ uid_var' = u)]_vars

\* C7 witness: an identifier was drained after its profile had been deleted
C7_Witness ==
    \E i \in 1 .. Len(handled) :
        handled[i].gone /\ ~handled[i].known /\ uid_var = handled[i].uid

\* worker w takes a step of run
Moves(w) == workers'[w].pc # workers[w].pc

\* C13 (as claimed): once a worker has terminated on an open failure or a read
\* failure, a connect action with a port selected starts a new worker.
C13_ConnectRestarts ==
    \A w \in WorkerIds :
        ( /\ workers[w].pc = "done"
          /\ workers[w].errs > 0
          /\ ActiveWorkers = {}
          /\ port_var # NoPort
          /\ ~polling
          /\ \E v \in WorkerIds : workers[v].pc = "unborn" )
        => ENABLED (connect /\ workers' # workers)

\* C14: a worker whose open fails reports the error once and returns at once:
\* it never holds a connection, reads nothing and puts nothing.
C14_OpenFailureEndsWorker ==
    /\ [](\A w \in WorkerIds :
            workers[w].ser = "none" =>
               /\ workers[w].pc \in {"unborn", "open", "done"}
               /\ workers[w].uid = <<>>
               /\ workers[w].pc = "done" => workers[w].errs = 1
               /\ workers[w].pc # "done" => workers[w].errs = 0)
    /\ [][\A w \in WorkerIds :
            (workers[w].ser = "none" /\ Moves(w)) =>
               /\ serial_queue' = serial_queue
               /\ readOrder' = readOrder
               /\ workers[w].pc # "done"]_vars

\* C14 witness: a worker has returned after a failed open
C14_Witness ==
    \E w \in WorkerIds :
        workers[w].pc = "done" /\ workers[w].ser = "none" /\ workers[w].errs = 1

\* C15: a worker whose read raises reports the error once, reads and puts
\* nothing more, and has closed its connection when it returns.
C15_ReadFailureEndsWorker ==
    /\ [](\A w \in WorkerIds :
            (workers[w].errs > 0 /\ workers[w].ser # "none") =>
               /\ workers[w].errs = 1
               /\ workers[w].pc \in {"close", "done"}
               /\ workers[w].pc = "done" => workers[w].ser = "closed")
    /\ [][\A w \in WorkerIds :
            (workers[w].errs > 0 /\ Moves(w)) =>
               /\ serial_queue' = serial_queue
               /\ readOrder' = readOrder
               /\ workers[w].pc = "close"
               /\ workers'[w].pc = "done"]_vars

\* C15 witness: a worker has returned after a failed read, connection closed
C15_Witness ==
    \E w \in WorkerIds :
        /\ workers[w].pc = "done"
        /\ workers[w].ser = "closed"
        /\ workers[w].errs = 1

\* C17: no empty identifier is ever put on the queue, held for a put, stored
\* in a profile (in memory or in the users file) or written to the log.
C17_NoEmptyIdentifier ==
    /\ \A i \in 1 .. Len(serial_queue) : serial_queue[i] # <<>>
    /\ \A w \in WorkerIds : workers[w].pc = "put" => workers[w].uid # <<>>
    /\ \A i \in 1 .. Len(users) : normalize_uid(users[i].uid) # <<>>
    /\ \A i \in 1 .. Len(usersFile) : normalize_uid(usersFile[i].uid) # <<>>
    /\ \A i \in 1 .. Len(logFile) : normalize_uid(logFile[i].uid) # <<>>
    /\ \A i \in 1 .. Len(logs) : normalize_uid(logs[i].uid) # <<>>

\* C17 witness: an identifier is queued and a row is logged while the form
\* holds a name and an identifier entry without any alphanumeric character
C17_Witness ==
    /\ serial_queue # <<>>
    /\ logFile # <<>>
    /\ normalize_uid(uid_var) = <<>>
    /\ strip(nama_var) # <<>>

\* no two rows of the list have the same canonical identifier
UniqueUids(us) ==
    \A i, j \in 1 .. Len(us) :
        SameId(us[i].uid, us[j].uid) => i = j

\* C16: started from a users file with unique identifiers, the profiles in
\* memory and in the users file keep unique canonical identifiers.
C16_UniqueIdentifiers ==
    UniqueUids(users) /\ UniqueUids(usersFile)

\* C16 witness: a save of an identifier that was already registered left two
\* profiles, the old one under a new name and one added from the form
C16_Witness ==
    /\ Len(usersFile) = 2
    /\ \E i \in 1 .. Len(usersFile) : SameId(usersFile[i].uid, <<"a">>)
                                        /\ usersFile[i].nama = strip(<<" ", "y">>)

\* the positions of the alphanumeric characters of x
AlnumPositions(x) == { i \in 1 .. Len(x) : isalnum(x[i]) }

\* the position in x of its k-th alphanumeric character
AlnumAt(x, k) ==
    CHOOSE i \in AlnumPositions(x) :
        Cardinality({ j \in AlnumPositions(x) : j <= i }) = k

\* C18: normalize_uid(x) is the alphanumeric characters of x, in order and
\* uppercased, so it holds uppercase letters and digits only, and
\* normalizing it again changes nothing.
C18_NormalizeCanonical ==
    LET x == uid_var
        y == normalize_uid(x)
    IN /\ \A k \in 1 .. Len(y) : y[k] \in UpperChars \cup DigitChars
       /\ Len(y) = Cardinality(AlnumPositions(x))
       /\ \A k \in 1 .. Len(y) : y[k] = upperChar(x[AlnumAt(x, k)])
       /\ normalize_uid(y) = y

\* C18 witness: a text of full length with a lowercase letter and a separator,
\* whose canonical form differs from it
C18_Witness ==
    /\ Len(uid_var) = MaxLen
    /\ \E i, j \in 1 .. Len(uid_var) :
          uid_var[i] \in LowerChars /\ ~isalnum(uid_var[j])
    /\ Len(normalize_uid(uid_var)) = MaxLen - 1

\* C11 (as claimed): whatever happens while a drained identifier is handled,
\* a next call of _poll_serial is scheduled.
C11_NextTickScheduled == scheduled

\* C12 (as claimed): when save_users raises in form_save or in delete_user,
\* the list of profiles in memory is what it was before the action.
C12_FailedSaveKeepsMemory ==
    [][(form_save_fails \/ delete_user_fails) => users' = users]_vars

\* the identifier has a profile in the users file
Persisted(uid) == find_user_by_uid(load_users(usersFile), uid) # 0

\* C19 (as claimed): after every handler of the main thread that ends without
\* a store failure the lists in memory are the contents of the two files, and
\* a drained identifier is known exactly when the users file has its profile.
C19_MemoryMatchesStore ==
    [][(~StoreFailure /\ workers' = workers) =>
          /\ users' = load_users(usersFile')
          /\ logs' = load_logs(logFile')
          /\ Handles => (HandledNow.known <=> Persisted(HandledNow.uid))]_vars

====
